---- MODULE Spec2Model ----
(***************************************************************************)
(* Model of chunkable_http_server.py: the chunked transfer-coding decoder  *)
(* (__read_chunked), its timeout wrapper (read_chunked), the body          *)
(* dispatcher (read_content) and the encoder (send_chunked) of             *)
(* ChunkableHTTPRequestHandler.                                            *)
(*                                                                         *)
(* Bytes are one-token strings; "CR" and "LF" stand for \r and \n.  A      *)
(* byte string is a sequence of such tokens.  The module is Python 2 code  *)
(* (str streams, integer '/', hex() on int), and the library calls it      *)
(* makes (file.readline, file.read, int(s, 16), str.join, hex,             *)
(* BaseHTTPRequestHandler.send_header) are modelled with their Python 2    *)
(* behaviour.                                                              *)
(***************************************************************************)
EXTENDS Integers, Sequences, FiniteSets, TLC

\* ---- bounds of the model ------------------------------------------------
\* Class attributes of the handler, scaled down so that their limits are hit.
max_content_size == 12
chunk_header_length == 6
\* Sizes of the inputs drawn in Init.
MaxChunks == 2
MaxBufs == 2
MaxBufLen == 3
MaxS == 3

\* ---- byte strings -------------------------------------------------------
CR == "CR"
LF == "LF"
CRLF == <<CR, LF>>

LowerHex == <<"0","1","2","3","4","5","6","7","8","9","a","b","c","d","e","f">>
UpperHex == <<"0","1","2","3","4","5","6","7","8","9","A","B","C","D","E","F">>

IsHexDigit(b) == \E i \in 1..16 : LowerHex[i] = b \/ UpperHex[i] = b

DigitValue(b) == (CHOOSE i \in 1..16 : LowerHex[i] = b \/ UpperHex[i] = b) - 1

\* Python's isspace() on the bytes the model uses.
IsSpace(b) == b \in {" ", CR, LF, "TAB"}

Drop(s, n) == IF n >= Len(s) THEN <<>> ELSE SubSeq(s, n + 1, Len(s))

Take(s, n) == IF n >= Len(s) THEN s ELSE SubSeq(s, 1, n)

RECURSIVE Concat(_)
Concat(ss) == IF ss = <<>> THEN <<>> ELSE Head(ss) \o Concat(Tail(ss))

RECURSIVE Repeat(_, _)
Repeat(b, n) == IF n <= 0 THEN <<>> ELSE <<b>> \o Repeat(b, n - 1)

\* The least element of a non-empty set of numbers.
Least(S) == CHOOSE m \in S : \A k \in S : m <= k

\* Index of the first byte of s at or after i that is not white space,
\* Len(s) + 1 when there is none.
NextNonSpace(s, i) ==
    LET ks == {k \in i..Len(s) : ~IsSpace(s[k])}
    IN  IF ks = {} THEN Len(s) + 1 ELSE Least(ks)

\* Index of the first byte of s at or after i that is not a hex digit,
\* Len(s) + 1 when there is none.
NextNonHex(s, i) ==
    LET ks == {k \in i..Len(s) : ~IsHexDigit(s[k])}
    IN  IF ks = {} THEN Len(s) + 1 ELSE Least(ks)

\* The number the hex digits s[i..j] denote.
HexValue(s, i, j) ==
    LET v[k \in (i - 1)..j] == IF k < i THEN 0 ELSE v[k - 1] * 16 + DigitValue(s[k])
    IN  v[j]

\* A bug of line 114: the chunk extension is not cut off.
SplitFirst_Whole(s) == s

\* str.split(';', 1)[0]: everything before the first ';', or the whole string.
SplitFirst(s) ==
    LET semi == {k \in 1..Len(s) : s[k] = ";"}
    IN  IF semi = {} THEN s ELSE SubSeq(s, 1, Least(semi) - 1)

\* int(s, 16) of Python 2: leading white space, an optional sign, white space
\* again, an optional 0x/0X prefix when a hex digit follows it, one or more
\* hex digits, trailing white space; anything else raises ValueError.
IntBase16(s) ==
    LET i1     == NextNonSpace(s, 1)
        signed == i1 <= Len(s) /\ s[i1] \in {"+", "-"}
        i2     == NextNonSpace(s, IF signed THEN i1 + 1 ELSE i1)
        pref   == /\ i2 + 2 <= Len(s)
                  /\ s[i2] = "0"
                  /\ s[i2 + 1] \in {"x", "X"}
                  /\ IsHexDigit(s[i2 + 2])
        i3     == IF pref THEN i2 + 2 ELSE i2
        i4     == NextNonHex(s, i3)
        v      == HexValue(s, i3, i4 - 1)
    IN  IF i4 = i3 \/ NextNonSpace(s, i4) <= Len(s)
        THEN [ok |-> FALSE, val |-> 0]
        ELSE [ok |-> TRUE, val |-> IF signed /\ s[i1] = "-" THEN 0 - v ELSE v]

\* hex(n)[2:] for an int n >= 0: lowercase digits, no padding.
RECURSIVE HexStr(_)
HexStr(n) == IF n < 16 THEN <<LowerHex[n + 1]>>
             ELSE HexStr(n \div 16) \o <<LowerHex[(n % 16) + 1]>>

\* ---- the input stream (rfile) ------------------------------------------
\* Index of the first LF of s at or after position i, 0 when there is none.
FindLF(s, i) ==
    LET lfs == {k \in i..Len(s) : s[k] = LF}
    IN  IF lfs = {} THEN 0 ELSE Least(lfs)

\* rfile.readline(n): bytes up to and including the first LF, at most n of
\* them; at end of stream, whatever is left (possibly nothing).
ReadlineLen(s, pos, n) ==
    LET avail == Len(s) - pos
        lf    == FindLF(s, pos + 1)
    IN  IF lf # 0 /\ lf - pos <= n THEN lf - pos
        ELSE IF avail >= n THEN n ELSE avail

\* readline blocks while the line is incomplete and the peer keeps the
\* stream open.
ReadlineReady(s, pos, closed, n) ==
    LET lf == FindLF(s, pos + 1)
    IN  closed \/ Len(s) - pos >= n \/ lf # 0

\* rfile.read(n): exactly n bytes, fewer only at end of stream; a negative n
\* reads until end of stream.
ReadLen(s, pos, n) ==
    IF n < 0 \/ Len(s) - pos < n THEN Len(s) - pos ELSE n

ReadReady(s, pos, closed, n) == closed \/ (n >= 0 /\ Len(s) - pos >= n)

Slice(s, pos, k) == IF k = 0 THEN <<>> ELSE SubSeq(s, pos + 1, pos + k)

\* ---- wire inputs --------------------------------------------------------
\* Chunks, last-chunk lines and trailers of the chunked-body grammar.
RECURSIVE ToUpper(_)
ToUpper(s) ==
    IF s = <<>> THEN <<>>
    ELSE LET i == CHOOSE k \in 1..16 : LowerHex[k] = Head(s)
         IN  <<UpperHex[i]>> \o ToUpper(Tail(s))

BigSize == max_content_size - 2

\* chunk = chunk-size [ chunk-ext ] CRLF chunk-data CRLF
Chunks ==
    { [line |-> <<"1">> \o CRLF,                     data |-> <<"p">>],
      [line |-> <<"2">> \o CRLF,                     data |-> CRLF],
      [line |-> <<"1", ";", "q">> \o CRLF,           data |-> <<"q">>],
      [line |-> HexStr(BigSize) \o CRLF,             data |-> Repeat("r", BigSize)],
      [line |-> ToUpper(HexStr(BigSize)) \o <<";", "q">> \o CRLF,
                                                     data |-> Repeat("R", BigSize)],
      [line |-> <<"1", ";">> \o Repeat("q", chunk_header_length) \o CRLF,
                                                     data |-> <<"s">>] }

\* last-chunk = 1*("0") [ chunk-ext ] CRLF
LastChunks == { <<"0">> \o CRLF, <<"0", ";", "q">> \o CRLF }

\* trailer-part: no line, a short line, a line longer than the line cap
Trailers == { <<>>, <<"q">> \o CRLF, Repeat("q", chunk_header_length + 1) \o CRLF }

ChunkSeqs(n) == UNION { [1..k -> Chunks] : k \in 0..n }

RECURSIVE ChunkBytes(_)
ChunkBytes(cs) ==
    IF cs = <<>> THEN <<>>
    ELSE Head(cs).line \o Head(cs).data \o CRLF \o ChunkBytes(Tail(cs))

ChunkData(cs) == [i \in 1..Len(cs) |-> cs[i].data]

\* Length of the longest chunk-header line of a body, CRLF included.
MaxLine(cs, l) ==
    CHOOSE m \in {Len(l)} \cup {Len(cs[i].line) : i \in 1..Len(cs)} :
        \A k \in {Len(l)} \cup {Len(cs[i].line) : i \in 1..Len(cs)} : k <= m

\* chunked-body = *chunk last-chunk trailer-part CRLF
WellFormed ==
    { [stream |-> ChunkBytes(cs) \o l \o t \o CRLF, wf |-> TRUE, data |-> ChunkData(cs),
       maxline |-> MaxLine(cs, l)] :
        cs \in ChunkSeqs(MaxChunks), l \in LastChunks, t \in Trailers }

\* A peer that stops sending in the middle of a chunked body.
Truncated ==
    UNION { { [stream |-> Take(w.stream, k), wf |-> FALSE, data |-> <<>>, maxline |-> 0] :
                k \in 0..(Len(w.stream) - 1) } :
            w \in { x \in WellFormed : Len(x.data) <= 1 } }

\* Header lines whose size field is not 1*HEXDIG, and header lines longer
\* than the line cap.
BadLines ==
    { <<"x">> \o CRLF, <<"1", "x">> \o CRLF, <<"0", "x", "1">> \o CRLF,
      <<"-", "1">> \o CRLF, <<"+", "1">> \o CRLF, <<";", "q">> \o CRLF,
      Repeat("0", chunk_header_length) \o <<"1">> \o CRLF,
      Repeat("0", chunk_header_length - 1) \o <<"1", "1">> \o CRLF }

Malformed ==
    { [stream |-> ChunkBytes(cs) \o b \o <<"p">> \o CRLF \o <<"0">> \o CRLF \o CRLF,
       wf |-> FALSE, data |-> <<>>, maxline |-> 0] :
        cs \in ChunkSeqs(1), b \in BadLines }

\* A bare CRLF where the last-chunk is expected.
NoLastChunk ==
    { [stream |-> ChunkBytes(cs) \o CRLF \o t \o CRLF, wf |-> FALSE, data |-> <<>>, maxline |-> 0] :
        cs \in ChunkSeqs(1), t \in Trailers }

Wires == WellFormed \cup Truncated \cup Malformed \cup NoLastChunk

NoWire == [stream |-> <<>>, wf |-> FALSE, data |-> <<>>, maxline |-> 0]

\* ---- encoder inputs -----------------------------------------------------
Buffers == UNION { [1..k -> {"h", CR}] : k \in 0..MaxBufLen }

MsgLists == UNION { [1..k -> Buffers] : k \in 0..MaxBufs }

\* ---- state --------------------------------------------------------------
VARIABLES
    mode,            \* which entry point this run exercises
    stream,          \* rfile: every byte the peer sends on the connection
    rpos,            \* rfile: number of bytes consumed so far
    closed,          \* rfile: TRUE when the peer closes after its last byte,
                     \*        FALSE when it stalls with the stream open
    wire,            \* what the peer meant to send (grammar lines 22-36)
    dpc,             \* __read_chunked: position in the function
    derr,            \* __read_chunked: the exception it raised, if any
    chunk_size,      \* __read_chunked: local chunk_size
    total_length,    \* __read_chunked: local total_length
    chunk,           \* __read_chunked: local chunk
    contents,        \* __read_chunked: local contents
    reads,           \* history of the reads __read_chunked made on rfile
    post_read_calls, \* history of the bodies handed to post_read
    hpc,             \* read_content / read_chunked: position of the handler
    herr,            \* the exception read_content let escape, if any
    headers,         \* self.headers of the request
    threading_bound, \* whether the name 'threading' resolves at line 89
    timed_out,       \* "no", or where the decoder was when t.join timed out
    log,             \* records written through self.logger by the handler
    epc,             \* send_chunked: position in the function
    msg_list,        \* send_chunked: argument msg_list
    chunk_max_size,  \* self.chunk_max_size
    bidx,            \* send_chunked: number of buffers of msg_list taken
    c_frag,          \* send_chunked: local c_frag
    frags,           \* history: per buffer taken, the lengths of the chunks written
    wfile,           \* every write made on the output stream, in order
    kwargs,          \* __init__: the keyword arguments of the constructor call
    cpc,             \* __init__: position in the constructor
    config,          \* force_chunked, chunk_max_size, chunk_read_timeout of self
    base_init        \* TinyHTTPHandler.__init__ has been called

dvars == <<dpc, derr, chunk_size, total_length, chunk, contents, reads, rpos>>
hvars == <<hpc, herr, timed_out, log>>
evars == <<epc, bidx, c_frag, frags, wfile>>
ivars == <<mode, wire, headers, threading_bound, msg_list, chunk_max_size>>
cvars == <<kwargs, cpc, config, base_init>>
vars == <<mode, stream, rpos, closed, wire, dpc, derr, chunk_size, total_length,
          chunk, contents, reads, post_read_calls, hpc, herr, headers,
          threading_bound, timed_out, log, epc, msg_list, chunk_max_size, bidx,
          c_frag, frags, wfile, kwargs, cpc, config, base_init>>

\* ---- constructor arguments ----------------------------------------------
\* Python values that a keyword argument can hold: a bool, an int, a str.
\* A missing key is Absent.
PyBool(b) == [t |-> "bool", n |-> IF b THEN 1 ELSE 0]
PyInt(k) == [t |-> "int", n |-> k]
PyStr == [t |-> "str", n |-> 0]
Absent == [t |-> "absent", n |-> 0]

\* Python's ==: a bool is an int, so True == 1 and False == 0.
PyEq(a, b) ==
    IF a.t \in {"bool", "int"} /\ b.t \in {"bool", "int"} THEN a.n = b.n ELSE a = b

\* Python 2's 'v > 0': numeric for bool and int; a str orders after every
\* number, so the comparison is true.
PyGtZero(v) == IF v.t \in {"bool", "int"} THEN v.n > 0 ELSE v.t = "str"

\* Lines 42-47: the class attributes an instance starts from.
ClassDefaults ==
    [force_chunked |-> PyBool(FALSE), chunk_max_size |-> PyInt(512),
     chunk_read_timeout |-> PyInt(5)]

KwargSets ==
    [force_chunked : {Absent, PyBool(TRUE), PyBool(FALSE), PyInt(0), PyInt(1), PyInt(2), PyStr},
     chunk_max_size : {Absent, PyInt(0 - 1), PyInt(0), PyInt(1), PyStr},
     chunk_read_timeout : {Absent, PyInt(0 - 1), PyInt(0), PyInt(1), PyStr}]

NoKwargs == [force_chunked |-> Absent, chunk_max_size |-> Absent, chunk_read_timeout |-> Absent]

\* A handler that is already constructed with the class defaults.
Constructed ==
    /\ kwargs = NoKwargs
    /\ cpc = "idle"
    /\ config = ClassDefaults
    /\ base_init = TRUE

\* Streams offered to a request that goes through read_content.
RequestWires == { w \in Wires : Len(w.stream) <= chunk_header_length + 4 }

\* self.headers: te is the value of Transfer-Encoding ("none" when the header
\* is missing, "" when it is sent with an empty value), cl tells whether
\* Content-Length is present.
HeaderSets == [te : {"none", "", "chunked", "gzip"}, cl : BOOLEAN]

\* Line 73, 'if transfer_encoding:': a missing header (None) and an empty
\* value are both false.
Falsy(te) == te \in {"none", ""}

NoHeaders == [te |-> "none", cl |-> FALSE]

InitLocals ==
    /\ rpos = 0
    /\ derr = "none"
    /\ chunk_size = 0
    /\ total_length = 0
    /\ chunk = <<>>
    /\ contents = <<>>
    /\ reads = <<>>
    /\ post_read_calls = <<>>
    /\ herr = "none"
    /\ timed_out = "no"
    /\ log = <<>>
    /\ bidx = 0
    /\ c_frag = <<>>
    /\ frags = <<>>
    /\ wfile = <<>>

\* __read_chunked called on a connection whose peer sends wire.stream.
InitDecode ==
    /\ Constructed
    /\ mode = "decode"
    /\ wire \in Wires
    /\ stream = wire.stream
    /\ closed \in BOOLEAN
    /\ dpc = "header"
    /\ hpc = "idle"
    /\ headers = [te |-> "chunked", cl |-> FALSE]
    /\ threading_bound = FALSE
    /\ epc = "idle"
    /\ msg_list = <<>>
    /\ chunk_max_size = 1

\* read_content, or read_chunked itself, called for a request with the given
\* headers.
InitRequest ==
    /\ Constructed
    /\ mode = "request"
    /\ wire \in RequestWires
    /\ stream = wire.stream
    /\ closed \in BOOLEAN
    /\ dpc = "idle"
    /\ hpc \in {"read_content", "read_chunked"}
    /\ headers \in HeaderSets
    /\ threading_bound \in BOOLEAN
    /\ epc = "idle"
    /\ msg_list = <<>>
    /\ chunk_max_size = 1

\* send_chunked called with msg_list on a handler whose chunk_max_size the
\* constructor accepted (lines 55-59: positive).
InitEncode ==
    /\ Constructed
    /\ mode = "encode"
    /\ wire = NoWire
    /\ stream = <<>>
    /\ closed = TRUE
    /\ dpc = "idle"
    /\ hpc = "idle"
    /\ headers = NoHeaders
    /\ threading_bound = FALSE
    /\ epc = "start"
    /\ msg_list \in MsgLists
    /\ chunk_max_size \in 1..MaxS

\* ChunkableHTTPRequestHandler(request, client_address, server, **kwargs).
InitConstruct ==
    /\ mode = "construct"
    /\ kwargs \in KwargSets
    /\ cpc = "force_chunked"
    /\ config = ClassDefaults
    /\ base_init = FALSE
    /\ wire = NoWire
    /\ stream = <<>>
    /\ closed = FALSE
    /\ dpc = "idle"
    /\ hpc = "idle"
    /\ headers = NoHeaders
    /\ threading_bound = FALSE
    /\ epc = "idle"
    /\ msg_list = <<>>
    /\ chunk_max_size = 1

Init == InitLocals /\ (InitDecode \/ InitRequest \/ InitEncode \/ InitConstruct)

\* ---- __init__ (lines 49-66) ---------------------------------------------
OtherUnchanged ==
    /\ UNCHANGED <<post_read_calls, stream, closed>>
    /\ UNCHANGED <<dvars, hvars, evars, ivars>>

\* Lines 50-54: force_chunked must be 'in [ True, False ]'.
CheckForceChunked ==
    /\ cpc = "force_chunked"
    /\ IF kwargs.force_chunked = Absent
       THEN cpc' = "chunk_max_size" /\ config' = config
       ELSE IF \E b \in BOOLEAN : PyEq(kwargs.force_chunked, PyBool(b))
       THEN /\ cpc' = "chunk_max_size"
            /\ config' = [config EXCEPT !.force_chunked = kwargs.force_chunked]
       ELSE cpc' = "raised" /\ config' = config
    /\ UNCHANGED <<kwargs, base_init>>
    /\ OtherUnchanged

\* Lines 55-59: chunk_max_size must be > 0.
CheckChunkMaxSize ==
    /\ cpc = "chunk_max_size"
    /\ IF kwargs.chunk_max_size = Absent
       THEN cpc' = "chunk_read_timeout" /\ config' = config
       ELSE IF PyGtZero(kwargs.chunk_max_size)
       THEN /\ cpc' = "chunk_read_timeout"
            /\ config' = [config EXCEPT !.chunk_max_size = kwargs.chunk_max_size]
       ELSE cpc' = "raised" /\ config' = config
    /\ UNCHANGED <<kwargs, base_init>>
    /\ OtherUnchanged

\* Lines 60-64: chunk_read_timeout must be > 0.
CheckChunkReadTimeout ==
    /\ cpc = "chunk_read_timeout"
    /\ IF kwargs.chunk_read_timeout = Absent
       THEN cpc' = "base_init" /\ config' = config
       ELSE IF PyGtZero(kwargs.chunk_read_timeout)
       THEN /\ cpc' = "base_init"
            /\ config' = [config EXCEPT !.chunk_read_timeout = kwargs.chunk_read_timeout]
       ELSE cpc' = "raised" /\ config' = config
    /\ UNCHANGED <<kwargs, base_init>>
    /\ OtherUnchanged

\* Lines 65-66: TinyHTTPHandler.__init__ and set_server_version.
BaseInit ==
    /\ cpc = "base_init"
    /\ base_init' = TRUE
    /\ cpc' = "done"
    /\ UNCHANGED <<kwargs, config>>
    /\ OtherUnchanged

\* ---- __read_chunked (lines 95-154) --------------------------------------
\* A bug of lines 112-113: the empty-read test is missing, so the empty
\* line goes on to int().
HeaderOutcome_NoResetTest(chunk_header) ==
    IF chunk_header = CRLF THEN [kind |-> "break", size |-> 0]
    ELSE CHOOSE o \in { IF ~r.ok THEN [kind |-> "invalid", size |-> 0]
                        ELSE IF r.val = 0 THEN [kind |-> "last", size |-> 0]
                        ELSE [kind |-> "chunk", size |-> r.val] :
                        r \in { IntBase16(f) : f \in {SplitFirst(chunk_header)} } } : TRUE

\* Lines 107-118: what the decoder makes of one chunk-header line.
HeaderOutcome(chunk_header) ==
    IF chunk_header = CRLF THEN [kind |-> "break", size |-> 0]
    ELSE IF chunk_header = <<>> THEN [kind |-> "reset", size |-> 0]
    ELSE CHOOSE o \in { IF ~r.ok THEN [kind |-> "invalid", size |-> 0]
                        ELSE IF r.val = 0 THEN [kind |-> "last", size |-> 0]
                        ELSE [kind |-> "chunk", size |-> r.val] :
                        r \in { IntBase16(f) : f \in {SplitFirst(chunk_header)} } } : TRUE

\* A bug of line 138: '>=' in place of '>'.
TooLarge_AtLeast(total) == total >= max_content_size

\* Line 138.
TooLarge(total) == total > max_content_size

\* A bug of lines 150-151: the empty-read test of the trailer loop is
\* missing, so the loop keeps reading at end of stream.
FooterOutcome_NoResetTest(footer) ==
    IF footer = CRLF THEN "break" ELSE "skip"

\* Lines 147-151: what the decoder makes of one trailer line.
FooterOutcome(footer) ==
    IF footer = CRLF THEN "break"
    ELSE IF footer = <<>> THEN "reset"
    ELSE "skip"

DecTerminated == dpc \in {"done", "raised"}

\* Lines 105-120: read one chunk-header line and act on it.
ReadChunkHeader ==
    /\ dpc = "header"
    /\ ReadlineReady(stream, rpos, closed, chunk_header_length)
    /\ \E k \in {ReadlineLen(stream, rpos, chunk_header_length)} :
       \E chunk_header \in {Slice(stream, rpos, k)} :
       \E o \in {HeaderOutcome(chunk_header)} :
           /\ rpos' = rpos + k
           /\ reads' = Append(reads, [op |-> "header", got |-> chunk_header])
           /\ chunk_size' = IF o.kind \in {"reset", "invalid"} THEN chunk_size ELSE o.size
           /\ derr' = IF o.kind = "reset" THEN "ConnectionReset"
                      ELSE IF o.kind = "invalid" THEN "InvalidLiteral"
                      ELSE derr
           /\ dpc' = IF o.kind \in {"reset", "invalid"} THEN "raised"
                     ELSE IF o.kind \in {"break", "last"} THEN "footer"
                     ELSE "data"
    /\ UNCHANGED <<total_length, chunk, contents, post_read_calls, stream, closed>>
    /\ UNCHANGED <<hvars, evars, ivars, cvars>>

\* Line 125: chunk = self.rfile.read(chunk_size).
ReadChunkData ==
    /\ dpc = "data"
    /\ ReadReady(stream, rpos, closed, chunk_size)
    /\ \E k \in {ReadLen(stream, rpos, chunk_size)} :
           /\ chunk' = Slice(stream, rpos, k)
           /\ rpos' = rpos + k
           /\ reads' = Append(reads, [op |-> "data", got |-> Slice(stream, rpos, k)])
    /\ dpc' = "tail"
    /\ UNCHANGED <<derr, chunk_size, total_length, contents, post_read_calls, stream, closed>>
    /\ UNCHANGED <<hvars, evars, ivars, cvars>>

\* Lines 131-140: discard two bytes, append the chunk, check the total.
ReadChunkTail ==
    /\ dpc = "tail"
    /\ ReadReady(stream, rpos, closed, 2)
    /\ \E k \in {ReadLen(stream, rpos, 2)} :
           /\ rpos' = rpos + k
           /\ reads' = Append(reads, [op |-> "tail", got |-> Slice(stream, rpos, k)])
    /\ contents' = Append(contents, chunk)
    /\ total_length' = total_length + chunk_size
    /\ IF TooLarge(total_length + chunk_size)
       THEN dpc' = "raised" /\ derr' = "TooLarge"
       ELSE dpc' = "header" /\ derr' = derr
    /\ UNCHANGED <<chunk_size, chunk, post_read_calls, stream, closed>>
    /\ UNCHANGED <<hvars, evars, ivars, cvars>>

\* Lines 143-153: read one trailer line.
ReadFooter ==
    /\ dpc = "footer"
    /\ ReadlineReady(stream, rpos, closed, chunk_header_length)
    /\ \E k \in {ReadlineLen(stream, rpos, chunk_header_length)} :
       \E footer \in {Slice(stream, rpos, k)} :
       \E o \in {FooterOutcome(footer)} :
           /\ rpos' = rpos + k
           /\ reads' = Append(reads, [op |-> "footer", got |-> footer])
           /\ derr' = IF o = "reset" THEN "ConnectionReset" ELSE derr
           /\ dpc' = IF o = "reset" THEN "raised"
                     ELSE IF o = "break" THEN "post_read"
                     ELSE "footer"
    /\ UNCHANGED <<chunk_size, total_length, chunk, contents, post_read_calls, stream, closed>>
    /\ UNCHANGED <<hvars, evars, ivars, cvars>>

\* Line 154: self.post_read(contents).
PostRead ==
    /\ dpc = "post_read"
    /\ post_read_calls' = Append(post_read_calls, contents)
    /\ dpc' = "done"
    /\ UNCHANGED <<derr, chunk_size, total_length, chunk, contents, reads, rpos, stream, closed>>
    /\ UNCHANGED <<hvars, evars, ivars, cvars>>

\* ---- read_content and read_chunked (lines 71-93) -----------------------
\* The value of a Python call that returns nothing.
None == "None"

\* self.read_length() of TinyHTTPHandler: the body read by Content-Length.
read_length == <<"content-length body">>

ThreadAlive == dpc \notin {"idle", "done", "raised"}

\* Lines 72-75: Transfer-Encoding is 'chunked'.
ReadContentChunked ==
    /\ hpc = "read_content"
    /\ headers.te = "chunked"
    /\ hpc' = "read_chunked"
    /\ UNCHANGED <<herr, timed_out, log, post_read_calls, stream, closed>>
    /\ UNCHANGED <<dvars, evars, ivars, cvars>>

\* Lines 76-78: any other Transfer-Encoding is logged as an error.
ReadContentUnsupported ==
    /\ hpc = "read_content"
    /\ ~Falsy(headers.te)
    /\ headers.te # "chunked"
    /\ log' = Append(log, "error: not supported such transfer_encoding")
    /\ hpc' = "returned"
    /\ UNCHANGED <<herr, timed_out, post_read_calls, stream, closed>>
    /\ UNCHANGED <<dvars, evars, ivars, cvars>>

\* Lines 79-80: self.post_read(self.read_length()).
ReadContentLength ==
    /\ hpc = "read_content"
    /\ Falsy(headers.te)
    /\ headers.cl
    /\ post_read_calls' = Append(post_read_calls, read_length)
    /\ hpc' = "returned"
    /\ UNCHANGED <<herr, timed_out, log, stream, closed>>
    /\ UNCHANGED <<dvars, evars, ivars, cvars>>

\* Lines 81-83 and 156-160: read_somehow calls post_read([]) and returns
\* nothing; read_content hands that result to post_read again.
ReadContentSomehow ==
    /\ hpc = "read_content"
    /\ Falsy(headers.te)
    /\ ~headers.cl
    /\ log' = Append(log, "debug: Content-Length or Transfer-Encoding are not specified.")
    /\ post_read_calls' = post_read_calls \o << <<>>, None >>
    /\ hpc' = "returned"
    /\ UNCHANGED <<herr, timed_out, stream, closed>>
    /\ UNCHANGED <<dvars, evars, ivars, cvars>>

\* Lines 86-90: check the header, create the decoder thread and start it.
\* The module never imports threading (lines 8-13), so the name resolves at
\* line 89 only when the embedding program has bound it; otherwise the call
\* raises NameError.
ReadChunkedStart ==
    /\ hpc = "read_chunked"
    /\ IF headers.te # "chunked"
       THEN hpc' = "raised" /\ herr' = "RuntimeError" /\ dpc' = dpc
       ELSE IF ~threading_bound
       THEN hpc' = "raised" /\ herr' = "NameError" /\ dpc' = dpc
       ELSE hpc' = "join" /\ herr' = herr /\ dpc' = "header"
    /\ UNCHANGED <<timed_out, log, post_read_calls, stream, closed>>
    /\ UNCHANGED <<derr, chunk_size, total_length, chunk, contents, reads, rpos>>
    /\ UNCHANGED <<evars, ivars, cvars>>

\* Line 91: t.join returns because the decoder thread has ended.
JoinThreadEnded ==
    /\ hpc = "join"
    /\ ~ThreadAlive
    /\ hpc' = "is_alive"
    /\ UNCHANGED <<herr, timed_out, log, post_read_calls, stream, closed>>
    /\ UNCHANGED <<dvars, evars, ivars, cvars>>

\* Line 91: t.join returns because chunk_read_timeout has elapsed.
JoinTimeout ==
    /\ hpc = "join"
    /\ ThreadAlive
    /\ timed_out' = dpc
    /\ hpc' = "is_alive"
    /\ UNCHANGED <<herr, log, post_read_calls, stream, closed>>
    /\ UNCHANGED <<dvars, evars, ivars, cvars>>

\* Lines 92-93: warn when the thread is still alive, then return.
CheckIsAlive ==
    /\ hpc = "is_alive"
    /\ log' = IF ThreadAlive
              THEN Append(log, "warn: timed out of thread of reading chunks.")
              ELSE log
    /\ hpc' = "returned"
    /\ UNCHANGED <<herr, timed_out, post_read_calls, stream, closed>>
    /\ UNCHANGED <<dvars, evars, ivars, cvars>>

\* ---- send_chunked (lines 162-186) ---------------------------------------
Write(kind, bytes) == [kind |-> kind, bytes |-> bytes]

\* Lines 172-173: bl and c_frag.
Fragments(c, s) ==
    LET bl == (Len(c) \div s) + (IF Len(c) % s # 0 THEN 1 ELSE 0)
    IN  [x \in 1..bl |->
            SubSeq(c, (x - 1) * s + 1,
                   IF (x - 1) * s + s > Len(c) THEN Len(c) ELSE (x - 1) * s + s)]

\* Line 176: ''.join([ chunk_size, '\r\n', i, '\r\n' ]) with line 175.
EncodedChunk(i) == HexStr(Len(i)) \o CRLF \o i \o CRLF

\* Lines 163-168: status line, three headers, end of the header block.
SendHeaders ==
    /\ epc = "start"
    /\ wfile' = wfile \o << Write("status", <<"HTTP status line">> \o CRLF),
                           Write("header", <<"Content-Type: text/plain">> \o CRLF),
                           Write("header", <<"Connection: close">> \o CRLF),
                           Write("header", <<"Transfer-Encoding: chunked">> \o CRLF),
                           Write("end_headers", CRLF) >>
    /\ epc' = "loop"
    /\ UNCHANGED <<bidx, c_frag, frags, post_read_calls, stream, closed>>
    /\ UNCHANGED <<dvars, hvars, ivars, cvars>>

\* Lines 170-173: take the next buffer of msg_list and slice it.
NextBuffer ==
    /\ epc = "loop"
    /\ bidx < Len(msg_list)
    /\ bidx' = bidx + 1
    /\ c_frag' = Fragments(msg_list[bidx + 1], chunk_max_size)
    /\ frags' = Append(frags, <<>>)
    /\ epc' = IF Fragments(msg_list[bidx + 1], chunk_max_size) = <<>> THEN "loop" ELSE "write"
    /\ UNCHANGED <<wfile, post_read_calls, stream, closed>>
    /\ UNCHANGED <<dvars, hvars, ivars, cvars>>

\* Lines 174-178: write the first fragment of c_frag as a chunk.
WriteFragment ==
    /\ epc = "write"
    /\ wfile' = Append(wfile, Write("chunk", EncodedChunk(Head(c_frag))))
    /\ frags' = [frags EXCEPT ![Len(frags)] = Append(@, Len(Head(c_frag)))]
    /\ epc' = "loghex"
    /\ UNCHANGED <<bidx, c_frag, post_read_calls, stream, closed>>
    /\ UNCHANGED <<dvars, hvars, ivars, cvars>>

\* Lines 179-181: the argument of the log call is " ".join(list, '\n');
\* str.join takes one argument, so evaluating it raises TypeError, which
\* leaves send_chunked before the next fragment is taken.
LogHex ==
    /\ epc = "loghex"
    /\ epc' = "raised"
    /\ UNCHANGED <<bidx, c_frag, frags, wfile, post_read_calls, stream, closed>>
    /\ UNCHANGED <<dvars, hvars, ivars, cvars>>

\* Lines 182-186: msg_list is exhausted; last-chunk, CRLF, then send_header
\* (which, in Python 2, writes the header line straight to wfile).
SendLastChunk ==
    /\ epc = "loop"
    /\ bidx = Len(msg_list)
    /\ wfile' = wfile \o << Write("last", <<"0">> \o CRLF),
                           Write("crlf", CRLF),
                           Write("header", <<"Connection: close">> \o CRLF) >>
    /\ epc' = "done"
    /\ UNCHANGED <<bidx, c_frag, frags, post_read_calls, stream, closed>>
    /\ UNCHANGED <<dvars, hvars, ivars, cvars>>

\* ---- the encoder's output read back by the decoder ----------------------
RECURSIVE BytesOf(_, _)
BytesOf(ws, kinds) ==
    IF ws = <<>> THEN <<>>
    ELSE (IF Head(ws).kind \in kinds THEN Head(ws).bytes ELSE <<>>) \o BytesOf(Tail(ws), kinds)

\* The body bytes of the response: first fragment through terminating CRLF.
BodyBytes == BytesOf(wfile, {"chunk", "last", "crlf"})

\* A client receives the body send_chunked wrote (the server closes the
\* connection after the response) and it is decoded by __read_chunked.
DecodeResponse ==
    /\ mode = "encode"
    /\ epc \in {"done", "raised"}
    /\ dpc = "idle"
    /\ stream' = BodyBytes
    /\ dpc' = "header"
    /\ UNCHANGED <<derr, chunk_size, total_length, chunk, contents, reads, rpos>>
    /\ UNCHANGED <<post_read_calls, closed>>
    /\ UNCHANGED <<hvars, evars, ivars, cvars>>

Next ==
    \/ CheckForceChunked
    \/ CheckChunkMaxSize
    \/ CheckChunkReadTimeout
    \/ BaseInit
    \/ ReadChunkHeader
    \/ ReadChunkData
    \/ ReadChunkTail
    \/ ReadFooter
    \/ PostRead
    \/ ReadContentChunked
    \/ ReadContentUnsupported
    \/ ReadContentLength
    \/ ReadContentSomehow
    \/ ReadChunkedStart
    \/ JoinThreadEnded
    \/ JoinTimeout
    \/ CheckIsAlive
    \/ SendHeaders
    \/ NextBuffer
    \/ WriteFragment
    \/ LogHex
    \/ SendLastChunk
    \/ DecodeResponse

Spec == Init /\ [][Next]_vars

\* The decoder is running code: a read that can return does return, and the
\* statement after it is executed.
DecoderStep == ReadChunkHeader \/ ReadChunkData \/ ReadChunkTail \/ ReadFooter \/ PostRead

SpecFair == Spec /\ WF_vars(DecoderStep)

TypeOK ==
    /\ dpc \in {"idle", "header", "data", "tail", "footer", "post_read", "done", "raised"}
    /\ derr \in {"none", "ConnectionReset", "InvalidLiteral", "TooLarge"}
    /\ hpc \in {"idle", "read_content", "read_chunked", "join", "is_alive", "returned", "raised"}
    /\ epc \in {"idle", "start", "loop", "write", "loghex", "done", "raised"}
    /\ rpos \in 0..Len(stream)

\* ---- properties ---------------------------------------------------------
RECURSIVE SumLen(_)
SumLen(ss) == IF ss = <<>> THEN 0 ELSE Len(Head(ss)) + SumLen(Tail(ss))

EncTerminated == epc \in {"done", "raised"}

LastRead == reads[Len(reads)]

\* C1: round trip. Once the body bytes written by send_chunked have been
\* decoded by __read_chunked, post_read has been called once with a body
\* whose concatenation is the concatenation of msg_list, whatever
\* chunk_max_size is.
C1_RoundTrip ==
    (mode = "encode" /\ DecTerminated) =>
        /\ Len(post_read_calls) = 1
        /\ Concat(post_read_calls[1]) = Concat(msg_list)

\* C2 (as stated): for every well-formed chunked body the decoder calls
\* post_read exactly once, with the chunks' data buffers in arrival order.
C2_WellFormedDecodes ==
    (mode = "decode" /\ wire.wf) =>
        /\ Len(post_read_calls) <= 1
        /\ DecTerminated => post_read_calls = <<wire.data>>

\* C2 (amended): the same, for the well-formed bodies whose chunk-header
\* and last-chunk lines are at most chunk_header_length bytes (CRLF
\* included) and whose chunk sizes total at most max_content_size.
WithinLimits ==
    /\ wire.wf
    /\ wire.maxline <= chunk_header_length
    /\ SumLen(wire.data) <= max_content_size

C2_WellFormedWithinLimits ==
    (mode = "decode" /\ WithinLimits) =>
        /\ Len(post_read_calls) <= 1
        /\ derr = "none"
        /\ post_read_calls # <<>> => dpc = "done"
        /\ DecTerminated => post_read_calls = <<wire.data>>

C2_Witness ==
    /\ mode = "decode"
    /\ WithinLimits
    /\ dpc = "done"
    /\ Len(wire.data) = 2
    /\ wire.data[1] # wire.data[2]
    /\ \E i \in 1..Len(reads) : reads[i].op = "header" /\ ";" \in {reads[i].got[k] : k \in 1..Len(reads[i].got)}
    /\ \E i \in 1..Len(reads) : reads[i].op = "footer" /\ reads[i].got # CRLF

\* C3: per input buffer of length L, send_chunked emits ceil(L/S) chunks,
\* in order, each of 1..S bytes of that buffer alone, with a lowercase hex
\* size line without extension; an empty buffer emits nothing.
RECURSIVE PiecesOf(_, _)
PiecesOf(c, s) ==
    IF c = <<>> THEN <<>> ELSE <<Take(c, s)>> \o PiecesOf(Drop(c, s), s)

RECURSIVE ExpectedChunks(_, _)
ExpectedChunks(ms, s) ==
    IF ms = <<>> THEN <<>>
    ELSE [x \in 1..Len(PiecesOf(Head(ms), s)) |->
             HexStr(Len(PiecesOf(Head(ms), s)[x])) \o CRLF \o PiecesOf(Head(ms), s)[x] \o CRLF]
         \o ExpectedChunks(Tail(ms), s)

ChunkWrites == SelectSeq(wfile, LAMBDA w : w.kind = "chunk")

C3_FragmentsPerBuffer ==
    EncTerminated =>
        /\ Len(frags) = Len(msg_list)
        /\ \A b \in 1..Len(frags) :
              LET L == Len(msg_list[b])
              IN  /\ Len(frags[b]) = (L + chunk_max_size - 1) \div chunk_max_size
                  /\ \A x \in 1..Len(frags[b]) : frags[b][x] \in 1..chunk_max_size
        /\ [x \in 1..Len(ChunkWrites) |-> ChunkWrites[x].bytes]
               = ExpectedChunks(msg_list, chunk_max_size)

\* C4: every run of send_chunked ends with the last-chunk marker '0' CRLF
\* followed by the terminating CRLF as the final writes on the stream.
C4_EndsWithLastChunk ==
    EncTerminated =>
        /\ Len(wfile) >= 2
        /\ wfile[Len(wfile) - 1] = Write("last", <<"0">> \o CRLF)
        /\ wfile[Len(wfile)] = Write("crlf", CRLF)

\* C5: the decode fails with the too-large error exactly when the running
\* total first exceeds max_content_size: it is raised right after the chunk
\* that crosses the limit, nothing is read afterwards, post_read is not
\* called, and a total equal to max_content_size is not rejected.
C5_TooLarge ==
    /\ total_length > max_content_size =>
          /\ dpc = "raised"
          /\ derr = "TooLarge"
          /\ total_length - chunk_size <= max_content_size
          /\ LastRead.op = "tail"
          /\ post_read_calls = <<>>
    /\ derr = "TooLarge" => total_length > max_content_size

C5_Witness ==
    /\ derr = "TooLarge"
    /\ Len(contents) >= 2
    /\ rpos < Len(stream)

C5_ExactlyMaxAccepted ==
    /\ dpc = "done"
    /\ total_length = max_content_size
    /\ post_read_calls = <<contents>>

\* The chunk-size field of a header line: the line up to the first ';',
\* without the line terminator.
SizeField(line) ==
    LET f == SplitFirst(line)
        g == IF f # <<>> /\ f[Len(f)] = LF THEN Take(f, Len(f) - 1) ELSE f
    IN  IF g # <<>> /\ g[Len(g)] = CR THEN Take(g, Len(g) - 1) ELSE g

AllHex(f) == \A k \in 1..Len(f) : IsHexDigit(f[k])

\* C6: a header line whose chunk-size field holds a character that is not
\* a hexadecimal digit ends the decode with the malformed-size error:
\* it is the last read, and post_read is not called.
C6_NonHexRejected ==
    \A i \in 1..Len(reads) :
        (reads[i].op = "header" /\ ~AllHex(SizeField(reads[i].got))) =>
            /\ i = Len(reads)
            /\ dpc = "raised"
            /\ derr = "InvalidLiteral"
            /\ post_read_calls = <<>>

\* C7: a header-line or trailer-line read that returns zero bytes ends the
\* decode with the connection-reset error: it is the last read and
\* post_read is not called.
C7_ResetOnClose ==
    \A i \in 1..Len(reads) :
        (reads[i].op \in {"header", "footer"} /\ reads[i].got = <<>>) =>
            /\ i = Len(reads)
            /\ dpc = "raised"
            /\ derr = "ConnectionReset"
            /\ post_read_calls = <<>>

C7_Witness ==
    /\ reads # <<>>
    /\ LastRead.op = "header"
    /\ LastRead.got = <<>>
    /\ contents # <<>>
    /\ derr = "ConnectionReset"

C7_WitnessTrailer ==
    /\ reads # <<>>
    /\ LastRead.op = "footer"
    /\ LastRead.got = <<>>
    /\ Len(reads) >= 3

Warned == \E k \in 1..Len(log) : log[k] = "warn: timed out of thread of reading chunks."

HandlerFinished == hpc \in {"returned", "raised"}

C9_LineTooLong ==
    \A i \in 1..Len(reads) :
        (/\ reads[i].op \in {"header", "footer"}
         /\ Len(reads[i].got) = chunk_header_length
         /\ reads[i].got[chunk_header_length] # LF) =>
            /\ i = Len(reads)
            /\ dpc = "raised"
            /\ derr = "HeaderLineTooLong"

\* What a caller of read_chunked can observe of the call.
Observed == [result |-> hpc, exception |-> herr, log |-> log]

\* What it observes when the decode succeeds, with or without a late finish.
SuccessObservations ==
    { [result |-> "returned", exception |-> "none", log |-> <<>>],
      [result |-> "returned", exception |-> "none",
       log |-> <<"warn: timed out of thread of reading chunks.">>] }

InvalidKwargs ==
    \/ kwargs.force_chunked.t \notin {"absent", "bool"}
    \/ kwargs.chunk_max_size.t = "int" /\ kwargs.chunk_max_size.n <= 0
    \/ kwargs.chunk_read_timeout.t = "int" /\ kwargs.chunk_read_timeout.n <= 0

\* C11: a constructor call with an invalid configuration value raises
\* before the base handler is initialised and before any byte is read or
\* written; a handler that was constructed has a boolean force_chunked, a
\* positive chunk_max_size and a positive chunk_read_timeout.
C11_EagerValidation ==
    /\ (mode = "construct" /\ InvalidKwargs) =>
          /\ ~base_init
          /\ cpc # "done"
          /\ rpos = 0
          /\ wfile = <<>>
    /\ (mode = "construct" /\ cpc = "done") =>
          /\ config.force_chunked.t = "bool"
          /\ config.chunk_max_size.t = "int" /\ config.chunk_max_size.n > 0
          /\ config.chunk_read_timeout.t = "int" /\ config.chunk_read_timeout.n > 0

ErrorLogged == \E k \in 1..Len(log) : log[k] = "error: not supported such transfer_encoding"

\* C12: for a request whose Transfer-Encoding header is present with a
\* value other than 'chunked', no decoder is started, no byte is read,
\* post_read is not called, and read_content, once it has returned, has
\* logged the error.
C12_UnsupportedEncoding ==
    (mode = "request" /\ headers.te \notin {"none", "chunked"}) =>
        /\ dpc = "idle"
        /\ rpos = 0
        /\ post_read_calls = <<>>
        /\ hpc = "returned" => ErrorLogged

\* ---- further properties of the decoder ----------------------------------
\* C13: a bare CRLF header line ends the chunk loop only when no chunk has
\* been read before it, and a non-empty body reaches post_read only after a
\* zero-size last-chunk line has been read.
C13_BareCRLFOnlyFirst ==
    /\ \A i \in 1..Len(reads) :
          (/\ reads[i].op = "header"
           /\ reads[i].got = CRLF
           /\ \E j \in 1..(i - 1) : reads[j].op = "data") =>
              dpc \notin {"footer", "post_read", "done"}
    /\ \A k \in 1..Len(post_read_calls) :
          (mode = "decode" /\ post_read_calls[k] # <<>>) =>
              \E i \in 1..Len(reads) :
                  reads[i].op = "header" /\ HeaderOutcome(reads[i].got).kind = "last"

\* C14: the chunk size taken from a header line is never negative and the
\* running total never decreases.
C14_SizeNonNegative ==
    [][chunk_size' >= 0 /\ total_length' >= total_length]_vars

\* C15: every buffer appended to the body is as long as the chunk size its
\* header declared (so the body is as long as the running total), and a
\* decode whose data read came back short never reaches post_read.
C15_DataLengthIsSize ==
    /\ SumLen(contents) = total_length
    /\ \A k \in 1..Len(post_read_calls) :
          mode # "request" => SumLen(post_read_calls[k]) = total_length

\* ---- further properties of read_chunked, read_content, send_chunked -----
WarnCount ==
    Len(SelectSeq(log, LAMBDA m : m = "warn: timed out of thread of reading chunks."))

\* C16: a call of read_chunked for a chunked request ends by returning to
\* its caller, and when the decoder thread is still running at that point
\* the timeout warning has been logged exactly once.
C16_ReadChunkedReturns ==
    (mode = "request" /\ headers.te = "chunked" /\ HandlerFinished) =>
        /\ hpc = "returned"
        /\ ThreadAlive => WarnCount = 1
        /\ WarnCount <= 1

C18_HeadersFirst ==
    /\ \A i \in 1..Len(wfile) : \A j \in 1..Len(wfile) :
          (wfile[i].kind \in {"status", "header"} /\ wfile[j].kind \notin {"status", "header"})
              => i < j
    /\ \A j \in 1..Len(wfile) :
          wfile[j].kind \in {"chunk", "last", "crlf"} =>
              /\ \E i \in 1..(j - 1) : wfile[i] = Write("header", <<"Connection: close">> \o CRLF)
              /\ \E i \in 1..(j - 1) : wfile[i] = Write("header", <<"Transfer-Encoding: chunked">> \o CRLF)
              /\ \E i \in 1..(j - 1) : wfile[i].kind = "end_headers"

\* C19: one call of read_content makes at most one call of post_read.
C19_PostReadAtMostOnce ==
    mode = "request" => Len(post_read_calls) <= 1

\* C20: on a stream that the peer closes after its last byte the decoder
\* terminates: it makes at most Len(stream) + 3 reads (every read but the
\* last three takes at least one byte), it ends either with one call of
\* post_read or with one error, and under fair scheduling it does end.
C20_Terminates ==
    /\ [](Len(reads) <= Len(stream) + 3)
    /\ [](DecTerminated =>
             \/ dpc = "done" /\ derr = "none" /\ Len(post_read_calls) = 1
             \/ dpc = "raised" /\ derr # "none" /\ post_read_calls = <<>>)
    /\ (closed /\ dpc # "idle") ~> DecTerminated

C20_Witness ==
    /\ mode = "decode"
    /\ closed
    /\ dpc = "raised"
    /\ derr = "ConnectionReset"
    /\ LastRead.op = "footer"
    /\ Len(contents) >= 1
    /\ \E i \in 1..Len(reads) : reads[i].op = "footer" /\ reads[i].got # <<>>

====
